---------------------------- MODULE Spec2Model ----------------------------
(***************************************************************************)
(* Model of source/conf.py, the Sphinx configuration of the OLSRT          *)
(* documentation.                                                          *)
(*                                                                         *)
(* conf.py is a straight line of twelve module-level assignments of        *)
(* literals.  Loading it is modelled statement by statement: pc is the     *)
(* index of the next statement, ns is the module namespace the             *)
(* assignments store into, and writes counts the stores per name.          *)
(*                                                                         *)
(* Once the file is loaded, the documentation tool that consumes it reads  *)
(* each value once into its own configuration (config) and sets up the     *)
(* plugins of the extensions list in the listed order (loaded).  The tool  *)
(* is not part of the repository: those two steps are modelled from the    *)
(* specification's description of it (sections 2, 3 and 6).                *)
(***************************************************************************)
EXTENDS Naturals, Sequences, FiniteSets, TLC

VARIABLES pc, ns, writes, config, loaded

vars == <<pc, ns, writes, config, loaded>>

(***************************************************************************)
(* Python values.  Every value carries the type its literal has in the     *)
(* source.  A dict literal is kept as its items in source order.           *)
(***************************************************************************)
Str(s) == [type |-> "str", val |-> s]

List(elems) == [type |-> "list", val |-> elems]

Item(k, v) == [key |-> k, value |-> v]

Dict(items) == [type |-> "dict", val |-> items]

\* A name with no binding in the module namespace.
Unbound == [type |-> "unbound"]

\* The keys of a dict.
Keys(d) == {d.val[i].key : i \in DOMAIN d.val}

\* d[k]: the value of the last item with key k (a later item of a dict
\* literal replaces an earlier one with the same key).
Lookup(d, k) ==
    LET hits == {i \in DOMAIN d.val : d.val[i].key = k}
        last == CHOOSE i \in hits : \A j \in hits : j <= i
    IN d.val[last].value

\* The elements of a list, as a set.
Elems(l) == {l.val[i] : i \in DOMAIN l.val}

(***************************************************************************)
(* The literals of conf.py, one definition per assignment, under the name  *)
(* the source assigns to.                                                  *)
(***************************************************************************)
project_lower == Str("olsrt")

project == Str("OLSRT")

copyright == Str("2025, OverLab Group")

author == Str("OverLab Group")

release_float == [type |-> "float", val |-> 1]

release == Str("v1.0.1")

extensions_typo ==
    List(<< Str("breathe"),
            Str("sphinx.ext.todos"),
            Str("sphinx.ext.coverage"),
            Str("sphinx.ext.viewcode"),
            Str("sphinx.ext.intersphinx") >>)

extensions_no_coverage ==
    List(<< Str("breathe"),
            Str("sphinx.ext.todo"),
            Str("sphinx.ext.viewcode"),
            Str("sphinx.ext.intersphinx") >>)

extensions_twice ==
    List(<< Str("breathe"),
            Str("sphinx.ext.todo"),
            Str("sphinx.ext.coverage"),
            Str("sphinx.ext.viewcode"),
            Str("sphinx.ext.todo") >>)

extensions ==
    List(<< Str("breathe"),
            Str("sphinx.ext.todo"),
            Str("sphinx.ext.coverage"),
            Str("sphinx.ext.viewcode"),
            Str("sphinx.ext.intersphinx") >>)

templates_path == List(<< Str("_templates") >>)

exclude_patterns_build == List(<< Str("_build") >>)

exclude_patterns == List(<< >>)

html_theme == Str("furo")

html_static_path == List(<< Str("_static") >>)

html_title == Str("OLSRT Documention")

breathe_projects == Dict(<< Item(Str("OLSRT"), Str("./xml")) >>)

breathe_default_project_other == Str("OLSRT-RT")

breathe_default_project == Str("OLSRT")

\* The names conf.py assigns, in source order.
Names ==
    << "project", "copyright", "author", "release", "extensions",
       "templates_path", "exclude_patterns", "html_theme",
       "html_static_path", "html_title", "breathe_projects",
       "breathe_default_project" >>

NameSet == {Names[i] : i \in DOMAIN Names}

\* pc past the last statement: the file is loaded.
Done == Len(Names) + 1

(***************************************************************************)
(* Loading conf.py                                                         *)
(***************************************************************************)
Init ==
    /\ pc = 1
    /\ ns = [n \in NameSet |-> Unbound]
    /\ writes = [n \in NameSet |-> 0]
    /\ config = [n \in NameSet |-> Unbound]
    /\ loaded = << >>

\* Statement number stmt, "target = value": store value under target and
\* fall through to the next statement.
Exec(stmt, target, value) ==
    /\ pc = stmt
    /\ ns' = [ns EXCEPT ![target] = value]
    /\ writes' = [writes EXCEPT ![target] = @ + 1]
    /\ pc' = pc + 1
    /\ UNCHANGED <<config, loaded>>

Assign_project == Exec(1, "project", project)

Assign_copyright == Exec(2, "copyright", copyright)

Assign_author == Exec(3, "author", author)

Assign_release == Exec(4, "release", release)

Assign_extensions == Exec(5, "extensions", extensions)

Assign_templates_path == Exec(6, "templates_path", templates_path)

Assign_exclude_patterns == Exec(7, "exclude_patterns", exclude_patterns)

Assign_html_theme == Exec(8, "html_theme", html_theme)

Assign_html_static_path == Exec(9, "html_static_path", html_static_path)

Assign_html_title_as_project == Exec(10, "project", html_title)

Assign_html_title == Exec(10, "html_title", html_title)

Assign_breathe_projects == Exec(11, "breathe_projects", breathe_projects)

Assign_breathe_default_project ==
    Exec(12, "breathe_default_project", breathe_default_project)

(***************************************************************************)
(* The documentation tool                                                  *)
(***************************************************************************)
\* The tool reads a value of the loaded file, once.
ReadValue ==
    /\ pc = Done
    /\ \E n \in NameSet :
          /\ config[n] = Unbound
          /\ config' = [config EXCEPT ![n] = ns[n]]
    /\ UNCHANGED <<pc, ns, writes, loaded>>

\* The tool sets up the next plugin of the extensions list it has read.
LoadExtension ==
    /\ pc = Done
    /\ config["extensions"].type = "list"
    /\ Len(loaded) < Len(config["extensions"].val)
    /\ loaded' = Append(loaded, config["extensions"].val[Len(loaded) + 1])
    /\ UNCHANGED <<pc, ns, writes, config>>

Next ==
    \/ Assign_project
    \/ Assign_copyright
    \/ Assign_author
    \/ Assign_release
    \/ Assign_extensions
    \/ Assign_templates_path
    \/ Assign_exclude_patterns
    \/ Assign_html_theme
    \/ Assign_html_static_path
    \/ Assign_html_title
    \/ Assign_breathe_projects
    \/ Assign_breathe_default_project
    \/ ReadValue
    \/ LoadExtension

Spec == Init /\ [][Next]_vars

(***************************************************************************)
(* Shapes of values                                                        *)
(***************************************************************************)
Loaded == pc = Done

Bound(n) == ns[n] # Unbound

IsStr(v) == v.type = "str"

IsStrList(v) == v.type = "list" /\ \A i \in DOMAIN v.val : IsStr(v.val[i])

IsStrDict(v) ==
    /\ v.type = "dict"
    /\ \A i \in DOMAIN v.val : IsStr(v.val[i].key) /\ IsStr(v.val[i].value)

NoDuplicates(seq) == \A i, j \in DOMAIN seq : seq[i] = seq[j] => i = j

(***************************************************************************)
(* The plugins the specification names, each with the optional behaviour   *)
(* it enables.                                                             *)
(***************************************************************************)
Provides ==
    [e \in { "breathe", "sphinx.ext.todo", "sphinx.ext.coverage",
             "sphinx.ext.viewcode", "sphinx.ext.intersphinx" } |->
       CASE e = "breathe" -> "api-doc bridge"
         [] e = "sphinx.ext.todo" -> "todo admonitions"
         [] e = "sphinx.ext.coverage" -> "api-doc coverage checks"
         [] e = "sphinx.ext.viewcode" -> "source-view links"
         [] e = "sphinx.ext.intersphinx" -> "cross-project references"]

RecognizedExtensions == DOMAIN Provides

Behaviours == {Provides[e] : e \in RecognizedExtensions}

\* The behaviours a list of plugin identifiers enables.
Enabled(l) ==
    {Provides[e.val] : e \in {x \in Elems(l) : IsStr(x) /\ x.val \in RecognizedExtensions}}

(***************************************************************************)
(* C1.  Once conf.py is loaded, breathe_default_project is a key of        *)
(* breathe_projects, and breathe_projects maps that key to a non-empty     *)
(* directory path.                                                         *)
(***************************************************************************)
C1_DefaultProjectIsKey ==
    Loaded =>
       LET d == ns["breathe_default_project"]
           m == ns["breathe_projects"]
       IN /\ m.type = "dict"
          /\ d \in Keys(m)
          /\ IsStr(Lookup(m, d))
          /\ Lookup(m, d).val # ""

\* The file is loaded and the tool has read the default project and finds
\* its directory in the mapping.
C1_Witness ==
    /\ Loaded
    /\ config["breathe_default_project"] = Str("OLSRT")
    /\ config["breathe_projects"] # Unbound
    /\ Lookup(config["breathe_projects"], config["breathe_default_project"])
          = Str("./xml")

(***************************************************************************)
(* C2.  Once conf.py is loaded, every element of the extensions list is    *)
(* one of the five recognized plugin identifiers; no other identifier      *)
(* appears in the list.                                                    *)
(***************************************************************************)
C2_OnlyRecognizedExtensions ==
    Loaded =>
       /\ ns["extensions"].type = "list"
       /\ \A e \in Elems(ns["extensions"]) :
             IsStr(e) /\ e.val \in RecognizedExtensions

\* The file is loaded with a five-element extensions list whose last
\* element is the cross-project reference plugin.
C2_Witness ==
    /\ Loaded
    /\ Len(ns["extensions"].val) = 5
    /\ ns["extensions"].val[5] = Str("sphinx.ext.intersphinx")

(***************************************************************************)
(* C3.  Once conf.py is loaded, each of the five optional behaviours is    *)
(* enabled by at least one element of the extensions list; and in every    *)
(* state of the load in which breathe_projects and breathe_default_project *)
(* are both set, the API-doc bridge plugin is in the extensions list.      *)
(***************************************************************************)
C3_EveryBehaviourEnabled ==
    /\ Loaded =>
          /\ ns["extensions"].type = "list"
          /\ Behaviours \subseteq Enabled(ns["extensions"])
    /\ (Bound("breathe_projects") /\ Bound("breathe_default_project")) =>
          /\ ns["extensions"].type = "list"
          /\ "api-doc bridge" \in Enabled(ns["extensions"])

\* Both breathe settings are set and the list enables all five behaviours.
C3_Witness ==
    /\ Bound("breathe_projects")
    /\ Bound("breathe_default_project")
    /\ Cardinality(Enabled(ns["extensions"])) = 5

(***************************************************************************)
(* C4.  The configuration values are written once and never mutated: no    *)
(* step changes the value of a name that is already set, each step moves   *)
(* to the next statement or leaves the load where it is (no branch, no     *)
(* loop), nothing is stored once the last assignment is done, and then     *)
(* every configuration name has been written exactly once.  The tool       *)
(* reads each value once, as it was written.                               *)
(***************************************************************************)
C4_WrittenOnceNeverMutated ==
    /\ [][ /\ \A n \in NameSet : Bound(n) => ns'[n] = ns[n]
           /\ pc' = pc \/ pc' = pc + 1
           /\ Loaded => (pc' = pc /\ ns' = ns /\ writes' = writes)
           /\ \A n \in NameSet :
                 config[n] # Unbound => config'[n] = config[n] ]_vars
    /\ [](Loaded => \A n \in NameSet : writes[n] = 1 /\ Bound(n))
    /\ [](\A n \in NameSet : config[n] # Unbound => config[n] = ns[n])

\* The load is over, the first and the last name were written once each,
\* and the tool has read every value.
C4_Witness ==
    /\ Loaded
    /\ writes["project"] = 1
    /\ writes["breathe_default_project"] = 1
    /\ \A n \in NameSet : config[n] # Unbound

(***************************************************************************)
(* C5.  Every configuration value that is set has the expected shape:      *)
(* project, copyright, author, release, html_theme, html_title and         *)
(* breathe_default_project are strings; extensions, templates_path,        *)
(* exclude_patterns and html_static_path are lists of strings;             *)
(* breathe_projects maps strings to strings.  Once conf.py is loaded,      *)
(* every one of them is set.                                               *)
(***************************************************************************)
StringNames ==
    { "project", "copyright", "author", "release", "html_theme",
      "html_title", "breathe_default_project" }

ListNames ==
    { "extensions", "templates_path", "exclude_patterns", "html_static_path" }

C5_WellFormedLiterals ==
    /\ \A n \in StringNames : Bound(n) => IsStr(ns[n])
    /\ \A n \in ListNames : Bound(n) => IsStrList(ns[n])
    /\ Bound("breathe_projects") => IsStrDict(ns["breathe_projects"])
    /\ Loaded => \A n \in NameSet : Bound(n)

\* The file is loaded; the release is the string read from it.
C5_Witness ==
    /\ Loaded
    /\ ns["release"] = Str("v1.0.1")
    /\ config["release"] = ns["release"]

(***************************************************************************)
(* C6.  Once conf.py is loaded, exclude_patterns is the empty list, and    *)
(* templates_path and html_static_path each hold exactly one path.         *)
(***************************************************************************)
C6_PathSettings ==
    Loaded =>
       /\ IsStrList(ns["exclude_patterns"])
       /\ Len(ns["exclude_patterns"].val) = 0
       /\ IsStrList(ns["templates_path"])
       /\ Len(ns["templates_path"].val) = 1
       /\ IsStrList(ns["html_static_path"])
       /\ Len(ns["html_static_path"].val) = 1

\* The file is loaded and the tool has read the three path settings.
C6_Witness ==
    /\ Loaded
    /\ config["exclude_patterns"] = List(<< >>)
    /\ config["templates_path"] = List(<< Str("_templates") >>)
    /\ config["html_static_path"] = List(<< Str("_static") >>)

(***************************************************************************)
(* C7.  Once conf.py is loaded, breathe_default_project equals project,    *)
(* and breathe_projects has exactly one key, which is that same name.      *)
(***************************************************************************)
C7_BreatheProjectIsProject ==
    Loaded =>
       /\ ns["breathe_default_project"] = ns["project"]
       /\ ns["breathe_projects"].type = "dict"
       /\ Keys(ns["breathe_projects"]) = {ns["project"]}

\* The file is loaded and the mapping has a single item.
C7_Witness ==
    /\ Loaded
    /\ ns["project"] = Str("OLSRT")
    /\ Len(ns["breathe_projects"].val) = 1

(***************************************************************************)
(* C8.  Once conf.py is loaded, the extensions list has no duplicate       *)
(* identifier and its first element is breathe; the tool sets the plugins  *)
(* up in the listed order, each at most once.                              *)
(***************************************************************************)
C8_ExtensionsOrderedNoDuplicate ==
    /\ Loaded =>
          /\ ns["extensions"].type = "list"
          /\ NoDuplicates(ns["extensions"].val)
          /\ Len(ns["extensions"].val) >= 1
          /\ ns["extensions"].val[1] = Str("breathe")
    /\ NoDuplicates(loaded)
    /\ \A i \in DOMAIN loaded :
          /\ i \in DOMAIN ns["extensions"].val
          /\ loaded[i] = ns["extensions"].val[i]

\* The tool has set up all five plugins, breathe first.
C8_Witness ==
    /\ Len(loaded) = 5
    /\ loaded[1] = Str("breathe")
    /\ loaded[5] = Str("sphinx.ext.intersphinx")

=============================================================================
